---- MODULE Spec2Model ----
(***************************************************************************)
(* Decision trees (ID3) of the "Decision Trees" notebook: entropy,         *)
(* partitioning, build_tree_id3 and classify, as a state machine over the  *)
(* notebook's globals (inputs, tree) and the last call made with its       *)
(* outcome; forest_classify over a forest (trees); shortest_paths_from of  *)
(* the "Network Analysis" notebook over its global users; map_reduce of    *)
(* the "MapReduce" notebook.  locals holds the local variables of a call   *)
(* that is modelled step by step.                                          *)
(*                                                                         *)
(* Encoding of Python values                                               *)
(*   - True / False / None are the strings "True" / "False" / "None"; no   *)
(*     attribute value or label of the model is one of the Python strings  *)
(*     'True', 'False' or 'None', so the encoding is injective.            *)
(*   - a dict is a function; d.keys() is the dict's domain in the order of *)
(*     AttributeOrder (the order every dict literal of the notebook uses). *)
(*   - a pair (attribute_dict, label) is the tuple <<dict, label>>.        *)
(*   - a tree is a leaf record or a node record (the notebook's bool or    *)
(*     (attribute, subtree_dict) tuple).                                   *)
(*   - a call's outcome is Return(v) or Raise(e): an exception propagates  *)
(*     through every caller, none of the code catches any.                 *)
(*   - a float is a fixed-point number with FracBits fractional bits.      *)
(***************************************************************************)
EXTENDS Integers, Sequences, FiniteSets, TLC

VARIABLES inputs, tree, call, result, trees, users, locals

vars == <<inputs, tree, call, result, trees, users, locals>>

(***************************************************************************)
(* Bounds of the model.                                                    *)
(***************************************************************************)
\* longest training list drawn in Init
MaxExamples == 3
\* longest training list of InitRaw (examples that may be malformed)
MaxRawExamples == 2
\* the longest training list a forest's trees are built from
MaxForestExamples == 2
\* the largest forest
MaxTrees == 3
\* the longest labeled list whose entropy is taken
MaxEntropyExamples == 4
\* the number of users of the network
MaxUsers == 4
\* the longest list of status updates given to map_reduce
MaxUpdates == 3
\* the largest number of rows or columns of a matrix
MaxDim == 2
\* fractional bits of the fixed-point numbers standing for floats
FracBits == 13

(***************************************************************************)
(* Python values.                                                          *)
(***************************************************************************)
True == "True"
False == "False"
None == "None"

Bool(b) == IF b THEN True ELSE False

IsBool(v) == v \in {True, False}

\* `if label`: False, None and the empty string are false in a condition
Truthy(label) == label \notin {False, None, ""}

NoException == "NoException"

Return(v) == [raised |-> NoException, value |-> v]

Raise(e) == [raised |-> e]

Returned(outcome) == outcome.raised = NoException

\* the notebook's tree representation
Leaf(b) == [kind |-> "leaf", value |-> b]

Node(attribute, subtree_dict) ==
    [kind |-> "node", attribute |-> attribute, subtree_dict |-> subtree_dict]

IsLeaf(t) == t.kind = "leaf"

AttributeOrder == <<"level", "lang", "tweets", "phd">>

RECURSIVE KeysFrom(_, _)
KeysFrom(d, i) ==
    IF i > Len(AttributeOrder) THEN <<>>
    ELSE IF AttributeOrder[i] \in DOMAIN d
         THEN <<AttributeOrder[i]>> \o KeysFrom(d, i + 1)
         ELSE KeysFrom(d, i + 1)

\* d.keys()
Keys(d) == KeysFrom(d, 1)

\* d.setdefault(k, v): a key that d has keeps its value
DictSet_keeping(d, k, v) ==
    [x \in DOMAIN d \cup {k} |-> IF x \in DOMAIN d THEN d[x] ELSE v]

\* the assignment left out
DictSet_dropped(d, k, v) == d

\* the dict d with d[k] = v assigned
DictSet(d, k, v) == [x \in DOMAIN d \cup {k} |-> IF x = k THEN v ELSE d[x]]

(***************************************************************************)
(* Fixed-point arithmetic standing for the floats of entropy().            *)
(***************************************************************************)
One == 2 ^ FracBits

\* count / total_count
Ratio(count, total) == (count * One) \div total

RECURSIVE Log2Frac(_, _)
\* the fractional bits of log2(y), One <= y < 2 * One, by repeated squaring
Log2Frac(y, i) ==
    IF i > FracBits THEN 0
    ELSE LET sq == (y * y) \div One
         IN IF sq >= 2 * One
            THEN (One \div (2 ^ i)) + Log2Frac(sq \div 2, i + 1)
            ELSE Log2Frac(sq, i + 1)

RECURSIVE Log2(_)
\* math.log(p, 2) for 0 < p
Log2(p) ==
    IF p < One THEN Log2(2 * p) - One
    ELSE IF p >= 2 * One THEN Log2(p \div 2) + One
    ELSE Log2Frac(p, 1)

RECURSIVE SumSeq(_)
SumSeq(s) == IF Len(s) = 0 THEN 0 ELSE Head(s) + SumSeq(Tail(s))

\* the sum without the minus sign
entropy_unsigned(class_probs) ==
    SumSeq([i \in 1..Len(class_probs) |->
              IF class_probs[i] # 0
              THEN (class_probs[i] * Log2(class_probs[i])) \div One
              ELSE 0])

\* sum(-p * math.log(p, 2) for p in class_probabilities if p)
entropy(class_probs) ==
    SumSeq([i \in 1..Len(class_probs) |->
              IF class_probs[i] # 0
              THEN ((0 - class_probs[i]) * Log2(class_probs[i])) \div One
              ELSE 0])

(***************************************************************************)
(* Entropy of labeled data and of a partition of it.                       *)
(***************************************************************************)
RECURSIVE Distinct(_)
\* the distinct elements of s in order of first occurrence: the key order
\* of a Counter or of a defaultdict filled by walking s
Distinct(s) ==
    IF Len(s) = 0 THEN <<>>
    ELSE LET front == Distinct(SubSeq(s, 1, Len(s) - 1))
             last == s[Len(s)]
         IN IF \E i \in 1..Len(front) : front[i] = last
            THEN front
            ELSE Append(front, last)

Count(s, v) == Cardinality({i \in 1..Len(s) : s[i] = v})

\* [count / total_count for count in Counter(labels).values()]
class_probabilities(labels) ==
    LET total_count == Len(labels)
        keys == Distinct(labels)
    IN [j \in 1..Len(keys) |-> Ratio(Count(labels, keys[j]), total_count)]

\* the classes are the attribute dicts, not the labels
data_entropy_of_dicts(labeled_data) ==
    LET dicts == [i \in 1..Len(labeled_data) |-> labeled_data[i][1]]
        probabilities == class_probabilities(dicts)
    IN entropy(probabilities)

data_entropy(labeled_data) ==
    LET labels == [i \in 1..Len(labeled_data) |-> labeled_data[i][2]]
        probabilities == class_probabilities(labels)
    IN entropy(probabilities)

\* subsets is the list of the groups' lists
partition_entropy(subsets) ==
    LET total_count == SumSeq([j \in 1..Len(subsets) |-> Len(subsets[j])])
    IN SumSeq([j \in 1..Len(subsets) |->
                 (data_entropy(subsets[j]) * Len(subsets[j])) \div total_count])

(***************************************************************************)
(* group_by and partition_by.  A defaultdict(list) is a record: its keys   *)
(* in insertion order and the list at each key.                            *)
(***************************************************************************)
RECURSIVE Pick_first_only(_, _, _)
\* groups[key] = [item] for groups[key].append(item): a key keeps one item
Pick_first_only(items, keys, k) ==
    IF Len(items) = 0 THEN <<>>
    ELSE IF Head(keys) = k
         THEN <<Head(items)>>
         ELSE Pick_first_only(Tail(items), Tail(keys), k)

RECURSIVE Pick(_, _, _)
\* the items whose key is k, in order
Pick(items, keys, k) ==
    IF Len(items) = 0 THEN <<>>
    ELSE IF Head(keys) = k
         THEN <<Head(items)>> \o Pick(Tail(items), Tail(keys), k)
         ELSE Pick(Tail(items), Tail(keys), k)

\* the group of the first item's key alone
group_by_first_only(items, keys) ==
    [keys |-> IF Len(keys) = 0 THEN <<>> ELSE <<keys[1]>>,
     at |-> [k \in {keys[i] : i \in 1..Len(keys)} \cap {keys[1]} |->
                Pick(items, keys, k)]]

\* the groups after a read of groups["unobserved"], which a defaultdict
\* answers by adding an empty list under the key
group_by_touched(items, keys) ==
    [keys |-> Append(Distinct(keys), "unobserved"),
     at |-> [k \in {keys[i] : i \in 1..Len(keys)} \cup {"unobserved"} |->
                Pick(items, keys, k)]]

\* keys[i] is key_fn(items[i])
group_by(items, keys) ==
    [keys |-> Distinct(keys),
     at |-> [k \in {keys[i] : i \in 1..Len(keys)} |-> Pick(items, keys, k)]]

\* groups.values()
DictValues(groups) == [j \in 1..Len(groups.keys) |-> groups.at[groups.keys[j]]]

\* x[0].get(attribute) for x[0][attribute]: a dict without the key is
\* grouped under None
partition_by_get(examples, attribute) ==
    Return(group_by(examples,
                    [i \in 1..Len(examples) |->
                       IF attribute \in DOMAIN examples[i][1]
                       THEN examples[i][1][attribute] ELSE None]))

\* x[0][attribute] raises KeyError for an x whose dict has no such key
partition_by(examples, attribute) ==
    IF \E i \in 1..Len(examples) : attribute \notin DOMAIN examples[i][1]
    THEN Raise("KeyError")
    ELSE Return(group_by(examples,
                         [i \in 1..Len(examples) |-> examples[i][1][attribute]]))

partition_entropy_by(examples, attribute) ==
    LET partitions == partition_by(examples, attribute)
    IN IF Returned(partitions)
       THEN Return(partition_entropy(DictValues(partitions.value)))
       ELSE partitions

(***************************************************************************)
(* classify and build_tree_id3.                                            *)
(***************************************************************************)
RECURSIVE classify_inverted(_, _)
\* classify with the test of line 270 inverted: a key that has a subtree is
\* replaced by None
classify_inverted(t, input) ==
    IF IsLeaf(t) THEN Return(t.value)
    ELSE LET attribute == t.attribute
             subtree_dict == t.subtree_dict
             got == IF attribute \in DOMAIN input THEN input[attribute] ELSE None
             subtree_key == IF got \in DOMAIN subtree_dict THEN None ELSE got
         IN IF subtree_key \notin DOMAIN subtree_dict
            THEN Raise("KeyError")
            ELSE classify_inverted(subtree_dict[subtree_key], input)

RECURSIVE classify_no_get(_, _)
\* classify with input[attribute] for input.get(attribute)
classify_no_get(t, input) ==
    IF IsLeaf(t) THEN Return(t.value)
    ELSE LET attribute == t.attribute
             subtree_dict == t.subtree_dict
         IN IF attribute \notin DOMAIN input THEN Raise("KeyError")
            ELSE LET got == input[attribute]
                     subtree_key == IF got \notin DOMAIN subtree_dict
                                    THEN None ELSE got
                 IN IF subtree_key \notin DOMAIN subtree_dict
                    THEN Raise("KeyError")
                    ELSE classify_no_get(subtree_dict[subtree_key], input)

RECURSIVE classify_seen_only(_, _)
\* classify without lines 270-271: a value with no subtree is looked up as is
classify_seen_only(t, input) ==
    IF IsLeaf(t) THEN Return(t.value)
    ELSE LET attribute == t.attribute
             subtree_dict == t.subtree_dict
             subtree_key == IF attribute \in DOMAIN input
                            THEN input[attribute] ELSE None
         IN IF subtree_key \notin DOMAIN subtree_dict
            THEN Raise("KeyError")
            ELSE classify_seen_only(subtree_dict[subtree_key], input)

RECURSIVE classify(_, _)
classify(t, input) ==
    IF IsLeaf(t) THEN Return(t.value)
    ELSE LET attribute == t.attribute
             subtree_dict == t.subtree_dict
             \* input.get(attribute)
             got == IF attribute \in DOMAIN input THEN input[attribute] ELSE None
             subtree_key == IF got \notin DOMAIN subtree_dict THEN None ELSE got
         IN IF subtree_key \notin DOMAIN subtree_dict
            THEN Raise("KeyError")
            ELSE classify(subtree_dict[subtree_key], input)

RECURSIVE classify_calls_twice(_, _)
\* every decision node is entered twice before its child is
classify_calls_twice(t, input) ==
    IF IsLeaf(t) THEN <<t>>
    ELSE LET got == IF t.attribute \in DOMAIN input THEN input[t.attribute] ELSE None
             subtree_key == IF got \notin DOMAIN t.subtree_dict THEN None ELSE got
         IN IF subtree_key \notin DOMAIN t.subtree_dict
            THEN <<t, t>>
            ELSE <<t, t>> \o classify_calls_twice(t.subtree_dict[subtree_key], input)

RECURSIVE classify_calls(_, _)
\* the trees that classify(t, input) and its recursive calls are called
\* with, in call order: the frames of the recursion
classify_calls(t, input) ==
    IF IsLeaf(t) THEN <<t>>
    ELSE LET attribute == t.attribute
             subtree_dict == t.subtree_dict
             got == IF attribute \in DOMAIN input THEN input[attribute] ELSE None
             subtree_key == IF got \notin DOMAIN subtree_dict THEN None ELSE got
         IN IF subtree_key \notin DOMAIN subtree_dict
            THEN <<t>>
            ELSE <<t>> \o classify_calls(subtree_dict[subtree_key], input)

RECURSIVE ArgMax(_, _, _)
\* max for min: the first candidate of the highest score
ArgMax(candidates, score, best) ==
    IF Len(candidates) = 0 THEN best
    ELSE ArgMax(Tail(candidates), score,
                IF score[Head(candidates)] > score[best]
                THEN Head(candidates) ELSE best)

RECURSIVE ArgMin_last(_, _, _)
\* the last candidate of the lowest score
ArgMin_last(candidates, score, best) ==
    IF Len(candidates) = 0 THEN best
    ELSE ArgMin_last(Tail(candidates), score,
                     IF score[Head(candidates)] <= score[best]
                     THEN Head(candidates) ELSE best)

RECURSIVE ArgMin(_, _, _)
\* min(candidates, key = score): the first candidate of the lowest score
ArgMin(candidates, score, best) ==
    IF Len(candidates) = 0 THEN best
    ELSE ArgMin(Tail(candidates), score,
                IF score[Head(candidates)] < score[best]
                THEN Head(candidates) ELSE best)

\* the first exception that the calls of a dict comprehension raise, if any
FirstRaised(keys, outcomeAt) ==
    IF \E j \in 1..Len(keys) : ~Returned(outcomeAt[keys[j]])
    THEN LET j == CHOOSE j \in 1..Len(keys) :
                    /\ ~Returned(outcomeAt[keys[j]])
                    /\ \A h \in 1..(j - 1) : Returned(outcomeAt[keys[h]])
         IN outcomeAt[keys[j]].raised
    ELSE NoException

\* the majority with a tie counted as a loss
majority_leaf_strict(num_trues, num_falses) == Leaf(Bool(num_trues > num_falses))

\* return num_trues >= num_falses: the leaf when no split candidates are left
majority_leaf(num_trues, num_falses) == Leaf(Bool(num_trues >= num_falses))

\* the default case always True
default_leaf_true(num_trues, num_falses) == Leaf(True)

\* the default case with the comparison turned round
default_leaf_minority(num_trues, num_falses) == Leaf(Bool(num_trues < num_falses))

\* subtrees[None] = num_trues > num_falses: the default case of a node
default_leaf(num_trues, num_falses) == Leaf(Bool(num_trues > num_falses))

\* the candidates but the best, and when any are left the first of them
\* once more
new_candidates_padded(split_candidates, best_attribute) ==
    LET rest == SelectSeq(split_candidates, LAMBDA a : a # best_attribute)
    IN IF Len(rest) = 0 THEN rest ELSE Append(rest, rest[1])

\* split_candidates[1:]: the first candidate is dropped, best or not
new_candidates_but_first(split_candidates, best_attribute) ==
    Tail(split_candidates)

\* [a for a in split_candidates if a != best_attribute]
new_candidates(split_candidates, best_attribute) ==
    SelectSeq(split_candidates, LAMBDA a : a # best_attribute)

RECURSIVE build_tree_id3(_, _)
\* the body of build_tree_id3 from line 284 on: split_candidates is a list
build_tree_id3(examples, split_candidates) ==
    LET num_inputs == Len(examples)
        num_trues == Cardinality({i \in 1..Len(examples) : Truthy(examples[i][2])})
        num_falses == num_inputs - num_trues
    IN IF num_trues = 0 THEN Return(Leaf(False))
       ELSE IF num_falses = 0 THEN Return(Leaf(True))
       ELSE IF Len(split_candidates) = 0
       THEN Return(majority_leaf(num_trues, num_falses))
       ELSE
       LET candidates == {split_candidates[j] : j \in 1..Len(split_candidates)}
           scored == [a \in candidates |-> partition_entropy_by(examples, a)]
           failed == FirstRaised(split_candidates, scored)
       IN IF failed # NoException THEN Raise(failed)
          ELSE
          LET score == [a \in candidates |-> scored[a].value]
              best_attribute == ArgMin(Tail(split_candidates), score,
                                       Head(split_candidates))
              partitions == partition_by(examples, best_attribute).value
              built == [v \in DOMAIN partitions.at |->
                          build_tree_id3(partitions.at[v],
                                         new_candidates(split_candidates,
                                                        best_attribute))]
              raisedBelow == FirstRaised(partitions.keys, built)
          IN IF raisedBelow # NoException THEN Raise(raisedBelow)
             ELSE
             LET subtrees == [v \in DOMAIN partitions.at |-> built[v].value]
             IN Return(Node(best_attribute,
                            DictSet(subtrees, None,
                                    default_leaf(num_trues, num_falses))))

\* the recursive calls that build_tree_id3(examples, split_candidates) makes
\* itself, in the order of the dict comprehension
build_tree_id3_subcalls(examples, split_candidates) ==
    LET num_inputs == Len(examples)
        num_trues == Cardinality({i \in 1..Len(examples) : Truthy(examples[i][2])})
        num_falses == num_inputs - num_trues
    IN IF num_trues = 0 \/ num_falses = 0 \/ Len(split_candidates) = 0
       THEN <<>>
       ELSE
       LET candidates == {split_candidates[j] : j \in 1..Len(split_candidates)}
           scored == [a \in candidates |-> partition_entropy_by(examples, a)]
       IN IF FirstRaised(split_candidates, scored) # NoException THEN <<>>
          ELSE
          LET score == [a \in candidates |-> scored[a].value]
              best_attribute == ArgMin(Tail(split_candidates), score,
                                       Head(split_candidates))
              partitions == partition_by(examples, best_attribute).value
              below == new_candidates(split_candidates, best_attribute)
          IN [j \in 1..Len(partitions.keys) |->
                [caller |-> [examples |-> examples,
                             split_candidates |-> split_candidates],
                 examples |-> partitions.at[partitions.keys[j]],
                 split_candidates |-> below]]

RECURSIVE build_tree_id3_calls(_, _)
\* the recursive calls that build_tree_id3(examples, split_candidates) and
\* the calls below it make: the arguments of each call and of its caller
build_tree_id3_calls(examples, split_candidates) ==
    LET subcalls == build_tree_id3_subcalls(examples, split_candidates)
    IN UNION {{subcalls[j]}
              \cup build_tree_id3_calls(subcalls[j].examples,
                                        subcalls[j].split_candidates) :
              j \in 1..Len(subcalls)}

\* build_tree_id3(inputs): split_candidates is None, the first pass
build_tree_id3_first_pass(examples) ==
    IF Len(examples) = 0 THEN Raise("IndexError")
    ELSE build_tree_id3(examples, Keys(examples[1][1]))

(***************************************************************************)
(* forest_classify.                                                        *)
(***************************************************************************)
RECURSIVE most_common_1(_, _, _)
\* Counter(votes).most_common(1)[0][0]: the key of the highest count, and of
\* the keys of that count the one inserted first; keys is the Counter's key
\* order, the votes' order of first occurrence
most_common_1(keys, votes, best) ==
    IF Len(keys) = 0 THEN best
    ELSE most_common_1(Tail(keys), votes,
                       IF Count(votes, Head(keys)) > Count(votes, best)
                       THEN Head(keys) ELSE best)

\* the vote of the first tree, whatever the others vote
forest_classify_first_vote(forest, input) ==
    IF Len(forest) = 0 THEN Raise("IndexError") ELSE classify(forest[1], input)

\* the tally starts with one vote for True
forest_classify_seeded(forest, input) ==
    LET outcomes == [i \in 1..Len(forest) |-> classify(forest[i], input)]
        votes == <<True>> \o [i \in 1..Len(forest) |-> outcomes[i].value]
        keys == Distinct(votes)
    IN Return(most_common_1(keys, votes, keys[1]))

\* the value that lost the vote
forest_classify_loser(forest, input) ==
    LET outcomes == [i \in 1..Len(forest) |-> classify(forest[i], input)]
        votes == [i \in 1..Len(forest) |-> outcomes[i].value]
        keys == Distinct(votes)
    IN IF Len(keys) = 0 THEN Raise("IndexError")
       ELSE Return(Bool(most_common_1(keys, votes, keys[1]) = False))

\* forest_classify(trees, input); the parameter is named forest here, trees
\* being the variable that holds the argument
forest_classify(forest, input) ==
    LET outcomes == [i \in 1..Len(forest) |-> classify(forest[i], input)]
        raised == FirstRaised([i \in 1..Len(forest) |-> i], outcomes)
        votes == [i \in 1..Len(forest) |-> outcomes[i].value]
        keys == Distinct(votes)
    IN IF raised # NoException THEN Raise(raised)
       ELSE IF Len(keys) = 0 THEN Raise("IndexError")
       ELSE Return(most_common_1(keys, votes, keys[1]))

(***************************************************************************)
(* The data the model draws from.                                          *)
(***************************************************************************)
\* the attributes of the drawn training data, and the values of each
Attributes == {"level", "phd"}

ValuesOf(a) == IF a = "level" THEN {"Junior", "Senior"} ELSE {"no", "yes"}

\* a value of the attribute that no drawn training example has
UnseenOf(a) == IF a = "level" THEN "Intern" ELSE "maybe"

SeqsUpTo(S, n) == UNION {[1..k -> S] : k \in 0..n}

\* attribute dicts that carry every attribute, with string values
FullDicts == {d \in [Attributes -> UNION {ValuesOf(a) : a \in Attributes}] :
                \A a \in Attributes : d[a] \in ValuesOf(a)}

\* well-formed labeled examples
Examples == {<<d, label>> : d \in FullDicts, label \in {True, False}}

\* dicts over any subset of the attributes, of seen and unseen values
Queries ==
    UNION {{d \in [keys -> UNION {ValuesOf(a) \cup {UnseenOf(a)} : a \in Attributes}] :
              \A a \in keys : d[a] \in ValuesOf(a) \cup {UnseenOf(a)}} :
           keys \in SUBSET Attributes}

\* the lists a caller may pass as split_candidates
CandidateLists ==
    {c \in SeqsUpTo(Attributes, Cardinality(Attributes)) :
       \A i, j \in 1..Len(c) : i # j => c[i] # c[j]}

\* attribute dicts that may lack level, or every attribute, and may hold None
\* for level
RawDicts ==
    UNION {{d \in [keys -> UNION {ValuesOf(a) : a \in Attributes} \cup {None}] :
              \A a \in keys :
                 d[a] \in ValuesOf(a) \cup (IF a = "level" THEN {None} ELSE {})} :
           keys \in {Attributes, {"phd"}, {}}}

\* labels that are no bool: a non-empty string (true in a condition) and the
\* empty string (false in a condition)
NonBoolLabels == {"yes", ""}

\* the dicts that the examples of a non-boolean label have
NonBoolDicts == {d \in FullDicts : d["phd"] = "no"}

RawExamples ==
    {<<d, label>> : d \in RawDicts, label \in {True, False}}
    \cup {<<d, label>> : d \in NonBoolDicts, label \in NonBoolLabels}

\* the dict with no key
EmptyDict == [a \in {} |-> None]

(***************************************************************************)
(* The notebook's hiring data and the calls made on it.                    *)
(***************************************************************************)
HiringAttributes == {"level", "lang", "tweets", "phd"}

Candidate(level, lang, tweets, phd) ==
    [a \in HiringAttributes |->
       IF a = "level" THEN level
       ELSE IF a = "lang" THEN lang
       ELSE IF a = "tweets" THEN tweets ELSE phd]

HiringInputs ==
    << <<Candidate("Senior", "Java", "no", "no"), False>>,
       <<Candidate("Senior", "Java", "no", "yes"), False>>,
       <<Candidate("Mid", "Python", "no", "no"), True>>,
       <<Candidate("Junior", "Python", "no", "no"), True>>,
       <<Candidate("Junior", "R", "yes", "no"), True>>,
       <<Candidate("Junior", "R", "yes", "yes"), False>>,
       <<Candidate("Mid", "R", "yes", "yes"), True>>,
       <<Candidate("Senior", "Python", "no", "no"), False>>,
       <<Candidate("Senior", "R", "yes", "no"), True>>,
       <<Candidate("Junior", "Python", "yes", "no"), True>>,
       <<Candidate("Senior", "Python", "yes", "yes"), True>>,
       <<Candidate("Mid", "Python", "no", "yes"), True>>,
       <<Candidate("Mid", "Java", "yes", "no"), True>>,
       <<Candidate("Junior", "Python", "no", "yes"), False>> >>

\* the values the hiring data has for an attribute
HiringValuesOf(a) == {HiringInputs[i][1][a] : i \in 1..Len(HiringInputs)}

\* dicts over any subset of the hiring attributes, of the data's values and
\* of the level the notebook queries that the data lacks
HiringQueries ==
    UNION {{d \in [keys -> UNION {HiringValuesOf(a) : a \in HiringAttributes}
                              \cup {"Intern"}] :
              \A a \in keys :
                 d[a] \in HiringValuesOf(a)
                          \cup (IF a = "level" THEN {"Intern"} ELSE {})} :
           keys \in SUBSET HiringAttributes}

HiringCandidateLists ==
    {c \in SeqsUpTo(HiringAttributes, Cardinality(HiringAttributes)) :
       \A i, j \in 1..Len(c) : i # j => c[i] # c[j]}

(***************************************************************************)
(* The notebook as a state machine: its globals inputs and tree, the last  *)
(* call made and that call's outcome.                                      *)
(***************************************************************************)
Unbound == [kind |-> "unbound"]

Init ==
    /\ inputs \in SeqsUpTo(Examples, MaxExamples)
    /\ tree = Unbound
    /\ call = [fn |-> "none"]
    /\ result = Return(None)
    /\ trees = <<>>
    /\ users = <<>>
    /\ locals = [fn |-> "none"]

\* tree = build_tree_id3(inputs): the notebook binds tree once
BuildTree ==
    /\ tree = Unbound
    /\ result' = build_tree_id3_first_pass(inputs)
    /\ tree' = IF Returned(result') THEN result'.value ELSE tree
    /\ call' = [fn |-> "build_tree_id3", given |-> FALSE]
    /\ UNCHANGED <<inputs, trees, users, locals>>

\* tree = build_tree_id3(inputs, split_candidates)
BuildTreeWith(split_candidates) ==
    /\ tree = Unbound
    /\ result' = build_tree_id3(inputs, split_candidates)
    /\ tree' = IF Returned(result') THEN result'.value ELSE tree
    /\ call' = [fn |-> "build_tree_id3", given |-> TRUE,
                split_candidates |-> split_candidates]
    /\ UNCHANGED <<inputs, trees, users, locals>>

\* classify leaves the subtree it followed in tree
Classify_descending(input) ==
    /\ tree # Unbound
    /\ result' = classify(tree, input)
    /\ tree' = IF IsLeaf(tree) THEN tree ELSE tree.subtree_dict[None]
    /\ call' = [fn |-> "classify", input |-> input]
    /\ UNCHANGED <<inputs, trees, users, locals>>

\* classify(tree, input)
Classify(input) ==
    /\ tree # Unbound
    /\ result' = classify(tree, input)
    /\ call' = [fn |-> "classify", input |-> input]
    /\ UNCHANGED <<inputs, tree, trees, users, locals>>

\* partition_by(inputs, attribute): the cells that partition the inputs run
\* before the cell that binds tree
PartitionBy(attribute) ==
    /\ tree = Unbound
    /\ result' = partition_by(inputs, attribute)
    /\ call' = [fn |-> "partition_by", attribute |-> attribute]
    /\ UNCHANGED <<inputs, tree, trees, users, locals>>

Next ==
    \/ BuildTree
    \/ \E c \in CandidateLists : BuildTreeWith(c)
    \/ \E x \in Queries : Classify(x)
    \/ \E a \in Attributes : PartitionBy(a)

\* training lists of well-formed examples
Spec == Init /\ [][Next]_vars

\* training lists whose examples may lack attributes, hold None for one, or
\* carry a label that is no bool
InitRaw ==
    /\ inputs \in SeqsUpTo(RawExamples, MaxRawExamples)
    /\ tree = Unbound
    /\ call = [fn |-> "none"]
    /\ result = Return(None)
    /\ trees = <<>>
    /\ users = <<>>
    /\ locals = [fn |-> "none"]

\* the queries are the training dicts themselves and the empty dict
NextRaw ==
    \/ BuildTree
    \/ \E c \in CandidateLists : BuildTreeWith(c)
    \/ \E i \in 1..Len(inputs) : Classify(inputs[i][1])
    \/ Classify(EmptyDict)
    \/ \E a \in Attributes : PartitionBy(a)

SpecRaw == InitRaw /\ [][NextRaw]_vars

\* the notebook's own run: the 14-row hiring data
InitHiring ==
    /\ inputs = HiringInputs
    /\ tree = Unbound
    /\ call = [fn |-> "none"]
    /\ result = Return(None)
    /\ trees = <<>>
    /\ users = <<>>
    /\ locals = [fn |-> "none"]

NextHiring ==
    \/ BuildTree
    \/ \E c \in HiringCandidateLists : BuildTreeWith(c)
    \/ \E x \in HiringQueries : Classify(x)
    \/ \E a \in HiringAttributes : PartitionBy(a)

SpecHiring == InitHiring /\ [][NextHiring]_vars

\* the builds alone, from the training lists of Spec
NextBuild ==
    \/ BuildTree
    \/ \E c \in CandidateLists : BuildTreeWith(c)

SpecBuild == Init /\ [][NextBuild]_vars

\* build_tree_id3 call by call: locals.stack holds the calls that have not
\* returned, the innermost first. A call is "called" until it has counted
\* its labels and chosen its split, then "splitting" while the dict
\* comprehension of lines 306-307 makes its recursive calls
BuildTreeCall(split_candidates) ==
    /\ call.fn = "none"
    /\ call' = [fn |-> "build_tree_id3", given |-> TRUE,
                split_candidates |-> split_candidates]
    /\ locals' = [fn |-> "build_tree_id3",
                  stack |-> <<[at |-> "called",
                               examples |-> inputs,
                               split_candidates |-> split_candidates]>>]
    /\ UNCHANGED <<inputs, tree, result, trees, users>>

\* the innermost call returns value: the first call's value is the result,
\* a recursive call's value is the subtree of the caller's next key
Returning(value, callers) ==
    IF Len(callers) = 0
    THEN /\ result' = Return(value)
         /\ tree' = value
         /\ locals' = [fn |-> "none"]
    ELSE /\ locals' = [locals EXCEPT !.stack =
                          <<[Head(callers) EXCEPT !.subtrees =
                                DictSet(@, Head(callers).keys[Cardinality(DOMAIN @) + 1],
                                        value)]>>
                          \o Tail(callers)]
         /\ UNCHANGED <<result, tree>>

\* lines 285-303 of the innermost call: a leaf is returned, or the best
\* attribute is chosen and the examples are partitioned by it
BuildTreeEnter ==
    /\ locals.fn = "build_tree_id3"
    /\ Head(locals.stack).at = "called"
    /\ LET examples == Head(locals.stack).examples
           split_candidates == Head(locals.stack).split_candidates
           num_inputs == Len(examples)
           num_trues == Cardinality({i \in 1..Len(examples) : Truthy(examples[i][2])})
           num_falses == num_inputs - num_trues
       IN IF num_trues = 0 THEN Returning(Leaf(False), Tail(locals.stack))
          ELSE IF num_falses = 0 THEN Returning(Leaf(True), Tail(locals.stack))
          ELSE IF Len(split_candidates) = 0
          THEN Returning(majority_leaf(num_trues, num_falses), Tail(locals.stack))
          ELSE
          LET candidates == {split_candidates[j] : j \in 1..Len(split_candidates)}
              scored == [a \in candidates |-> partition_entropy_by(examples, a)]
              failed == FirstRaised(split_candidates, scored)
          IN IF failed # NoException
             THEN /\ result' = Raise(failed)
                  /\ locals' = [fn |-> "none"]
                  /\ UNCHANGED tree
             ELSE
             LET score == [a \in candidates |-> scored[a].value]
                 best_attribute == ArgMin(Tail(split_candidates), score,
                                          Head(split_candidates))
                 partitions == partition_by(examples, best_attribute).value
             IN /\ locals' = [locals EXCEPT !.stack =
                                 <<[at |-> "splitting",
                                    examples |-> examples,
                                    split_candidates |-> split_candidates,
                                    best_attribute |-> best_attribute,
                                    keys |-> partitions.keys,
                                    partitions |-> partitions.at,
                                    new_candidates |->
                                        new_candidates(split_candidates,
                                                       best_attribute),
                                    default |-> default_leaf(num_trues, num_falses),
                                    subtrees |-> <<>>]>>
                                 \o Tail(locals.stack)]
                /\ UNCHANGED <<result, tree>>
    /\ UNCHANGED <<inputs, call, trees, users>>

\* lines 306-307: the recursive call for the next key of partitions
BuildTreeRecurse ==
    /\ locals.fn = "build_tree_id3"
    /\ Head(locals.stack).at = "splitting"
    /\ LET caller == Head(locals.stack)
           done == Cardinality(DOMAIN caller.subtrees)
       IN /\ done < Len(caller.keys)
          /\ locals' = [locals EXCEPT !.stack =
                           <<[at |-> "called",
                              examples |-> caller.partitions[caller.keys[done + 1]],
                              split_candidates |-> caller.new_candidates]>>
                           \o locals.stack]
    /\ UNCHANGED <<inputs, tree, call, result, trees, users>>

\* lines 309-311: every subtree is built, the default case is added and
\* the node is returned
BuildTreeReturn ==
    /\ locals.fn = "build_tree_id3"
    /\ Head(locals.stack).at = "splitting"
    /\ LET returning == Head(locals.stack)
       IN /\ Cardinality(DOMAIN returning.subtrees) = Len(returning.keys)
          /\ Returning(Node(returning.best_attribute,
                            DictSet(returning.subtrees, None, returning.default)),
                       Tail(locals.stack))
    /\ UNCHANGED <<inputs, call, trees, users>>

NextBuildSteps ==
    \/ \E c \in CandidateLists : BuildTreeCall(c)
    \/ BuildTreeEnter
    \/ BuildTreeRecurse
    \/ BuildTreeReturn

SpecBuildSteps == Init /\ [][NextBuildSteps]_vars

\* one step of the call that runs
BuildTreeStep == BuildTreeEnter \/ BuildTreeRecurse \/ BuildTreeReturn

\* the call that runs has a step to take: its stack is not empty, and the
\* innermost call is entered, recurses or returns
BuildTreeStepEnabled == locals.fn = "build_tree_id3"

\* a call that was started runs on: WF_vars(BuildTreeStep), with
\* ENABLED <<BuildTreeStep>>_vars written out as BuildTreeStepEnabled
SpecBuildFair ==
    /\ SpecBuildSteps
    /\ ([]<>(~BuildTreeStepEnabled) \/ []<><<BuildTreeStep>>_vars)

\* the trees a caller puts in a forest: builds from the training list, each
\* with its own ordered candidate attributes
ForestCandidateLists == {<<>>, <<"level">>, <<"level", "phd">>}

BuiltTrees(examples) ==
    {build_tree_id3(examples, c).value : c \in ForestCandidateLists}

\* the inputs a forest is asked about: one of unseen values, the complete
\* dicts, the empty dict
ForestQueries ==
    FullDicts \cup {EmptyDict} \cup {[a \in Attributes |-> UnseenOf(a)]}

\* the examples a forest's training list is drawn from: the applicants
\* without a PhD, of either level and either label
ForestExamples == {e \in Examples : e[1]["phd"] = "no"}

InitForest ==
    /\ inputs \in SeqsUpTo(ForestExamples, MaxForestExamples)
    /\ trees \in SeqsUpTo(BuiltTrees(inputs), MaxTrees)
    /\ tree = Unbound
    /\ call = [fn |-> "none"]
    /\ result = Return(None)
    /\ users = <<>>
    /\ locals = [fn |-> "none"]

\* forest_classify(trees, input)
ForestClassify(input) ==
    /\ result' = forest_classify(trees, input)
    /\ call' = [fn |-> "forest_classify", input |-> input]
    /\ UNCHANGED <<inputs, tree, trees, users, locals>>

NextForest == \E x \in ForestQueries : ForestClassify(x)

SpecForest == InitForest /\ [][NextForest]_vars

\* the labeled data whose entropy is taken: applicants of either level
\* without a PhD, each with one of three labels
EntropyLabels == {True, False, "maybe"}

EntropyExamples == {<<d, label>> : d \in NonBoolDicts, label \in EntropyLabels}

InitEntropy ==
    /\ inputs \in SeqsUpTo(EntropyExamples, MaxEntropyExamples)
    /\ tree = Unbound
    /\ call = [fn |-> "none"]
    /\ result = Return(None)
    /\ trees = <<>>
    /\ users = <<>>
    /\ locals = [fn |-> "none"]

\* data_entropy(inputs)
DataEntropy ==
    /\ result' = Return(data_entropy(inputs))
    /\ call' = [fn |-> "data_entropy"]
    /\ UNCHANGED <<inputs, tree, trees, users, locals>>

\* partition_entropy_by(inputs, attribute)
PartitionEntropyBy(attribute) ==
    /\ result' = partition_entropy_by(inputs, attribute)
    /\ call' = [fn |-> "partition_entropy_by", attribute |-> attribute]
    /\ UNCHANGED <<inputs, tree, trees, users, locals>>

NextEntropy ==
    \/ DataEntropy
    \/ \E a \in Attributes : PartitionEntropyBy(a)

SpecEntropy == InitEntropy /\ [][NextEntropy]_vars

(***************************************************************************)
(* The "Network Analysis" notebook: users, friendships and                 *)
(* shortest_paths_from.  A user dict is a record of its id and the ids of  *)
(* its friends (the friends list holds references to user dicts); the dict *)
(* shortest_paths_to is a function from user ids to lists of paths; a pair *)
(* of the frontier is <<id of prev_user, id of user>>.                     *)
(***************************************************************************)
UserIds == 0..(MaxUsers - 1)

\* users[i] is the user whose id is i
User(us, id) == us[id + 1]

\* the pairs (i, j) a friendships list can hold
FriendshipPairs == {<<i, j>> : i \in UserIds, j \in UserIds} \ {<<i, i>> : i \in UserIds}

RECURSIVE ListOf(_)
\* the pairs of S listed as the notebook lists them: by first id, then second
ListOf(S) ==
    IF S = {} THEN <<>>
    ELSE LET first == CHOOSE p \in S : \A q \in S :
                         p[1] < q[1] \/ (p[1] = q[1] /\ p[2] <= q[2])
         IN <<first>> \o ListOf(S \ {first})

\* friendships = [(0, 1), (0, 2), ...]: each friendship is listed once, the
\* lower id first
FriendshipLists == {ListOf(S) : S \in SUBSET {p \in FriendshipPairs : p[1] < p[2]}}

RECURSIVE populate(_, _)
\* for i, j in friendships: users[i]["friends"].append(users[j]);
\*                          users[j]["friends"].append(users[i])
populate(us, friendships) ==
    IF Len(friendships) = 0 THEN us
    ELSE LET i == Head(friendships)[1]
             j == Head(friendships)[2]
             first == [us EXCEPT ![i + 1].friends = Append(@, j)]
             second == [first EXCEPT ![j + 1].friends = Append(@, i)]
         IN populate(second, Tail(friendships))

\* the users, each with an empty friends list, then populated
befriended(friendships) ==
    populate([k \in 1..MaxUsers |-> [id |-> k - 1, friends |-> <<>>]], friendships)

\* every path via prev is kept, whatever its length
new_paths_to_here_any_length(paths_via_prev, old_paths_to_here) ==
    LET new(path_via_prev) ==
            \A k \in 1..Len(old_paths_to_here) : old_paths_to_here[k] # path_via_prev
    IN SelectSeq(paths_via_prev, new)

\* [path_via_prev for path_via_prev in paths_via_prev
\*  if len(path_via_prev) <= min_path_length
\*  and path_via_prev not in old_paths_to_here]
new_paths_to_here(paths_via_prev, old_paths_to_here) ==
    LET not_too_long(path_via_prev) ==
            \* min_path_length is float('inf') when no path is known
            \/ Len(old_paths_to_here) = 0
            \/ Len(path_via_prev) <= Len(old_paths_to_here[1])
        new(path_via_prev) ==
            /\ not_too_long(path_via_prev)
            /\ \A k \in 1..Len(old_paths_to_here) : old_paths_to_here[k] # path_via_prev
    IN SelectSeq(paths_via_prev, new)

\* the outcome of a call that has not returned
Pending == [raised |-> "Pending"]

InitNetwork ==
    /\ users \in {befriended(friendships) : friendships \in FriendshipLists}
    /\ locals = [fn |-> "none"]
    /\ call = [fn |-> "none"]
    /\ result = Return(None)
    /\ inputs = <<>>
    /\ tree = Unbound
    /\ trees = <<>>

\* shortest_paths_from(from_user) is called: the code before the loop
ShortestPathsFrom(from_user) ==
    /\ locals.fn = "none"
    /\ locals' = [fn |-> "shortest_paths_from",
                  shortest_paths_to |-> (from_user.id :> << <<>> >>),
                  frontier |-> [k \in 1..Len(from_user.friends) |->
                                  <<from_user.id, from_user.friends[k]>>]]
    /\ call' = [fn |-> "shortest_paths_from", from_user |-> from_user.id]
    /\ result' = Pending
    /\ UNCHANGED <<inputs, tree, trees, users>>

\* one pass of the loop "while frontier"
ExploreFrontier ==
    /\ locals.fn = "shortest_paths_from"
    /\ Len(locals.frontier) > 0
    /\ LET shortest_paths_to == locals.shortest_paths_to
           prev_user_id == Head(locals.frontier)[1]
           user_id == Head(locals.frontier)[2]
           paths_to_prev == shortest_paths_to[prev_user_id]
           paths_via_prev == [k \in 1..Len(paths_to_prev) |->
                                Append(paths_to_prev[k], user_id)]
           old_paths_to_here == IF user_id \in DOMAIN shortest_paths_to
                                THEN shortest_paths_to[user_id] ELSE <<>>
           assigned == DictSet(shortest_paths_to, user_id,
                               old_paths_to_here \o
                               new_paths_to_here(paths_via_prev, old_paths_to_here))
           unknown(friend_id) == friend_id \notin DOMAIN assigned
           new_neighbors == SelectSeq(User(users, user_id).friends, unknown)
       IN locals' = [locals EXCEPT
                       !.shortest_paths_to = assigned,
                       !.frontier = Tail(@) \o [k \in 1..Len(new_neighbors) |->
                                                  <<user_id, new_neighbors[k]>>]]
    /\ UNCHANGED <<inputs, tree, trees, users, call, result>>

\* the frontier is empty: return shortest_paths_to
ReturnShortestPaths ==
    /\ locals.fn = "shortest_paths_from"
    /\ Len(locals.frontier) = 0
    /\ result' = Return(locals.shortest_paths_to)
    /\ locals' = [fn |-> "none"]
    /\ UNCHANGED <<inputs, tree, trees, users, call>>

NextNetwork ==
    \/ \E i \in 1..Len(users) : ShortestPathsFrom(users[i])
    \/ ExploreFrontier
    \/ ReturnShortestPaths

SpecNetwork == InitNetwork /\ [][NextNetwork]_vars

\* a call that has begun goes on: the loop runs on and the function returns
SpecNetworkFair ==
    /\ SpecNetwork
    /\ WF_vars(ExploreFrontier)
    /\ WF_vars(ReturnShortestPaths)

(***************************************************************************)
(* The "MapReduce" notebook: map_reduce with the notebook's mappers and    *)
(* reducers over status updates.  A generator is the list of what it       *)
(* yields; mapper and reducer arguments are named by the function's name.  *)
(***************************************************************************)
RECURSIVE Flatten(_)
\* the items of the lists of a list, in order: a nested comprehension
Flatten(lists) ==
    IF Len(lists) = 0 THEN <<>> ELSE Head(lists) \o Flatten(Tail(lists))

\* "data science" in status_update["text"].lower()
ContainsDataScience(text) == text = "Is anyone interested in a data science book?"

\* yields (day_of_week, 1) if the status update contains "data science";
\* created_at is kept as its weekday()
data_science_day_mapper(status_update) ==
    IF ContainsDataScience(status_update.text)
    THEN << <<status_update.created_at, 1>> >>
    ELSE <<>>

\* for liker in status_update["liked_by"]: yield (user, liker)
liker_mapper(status_update) ==
    [k \in 1..Len(status_update.liked_by) |->
       <<status_update.username, status_update.liked_by[k]>>]

\* mapper(input)
mapper_yields(mapper, input) ==
    IF mapper = "liker_mapper" THEN liker_mapper(input)
    ELSE data_science_day_mapper(input)

\* reduce_with(aggregation_fn, key, values): yield (key, aggregation_fn(values))
\* for sum_reducer and count_distinct_reducer
reducer_yields(reducer, key, values) ==
    IF reducer = "sum_reducer"
    THEN << <<key, SumSeq(values)>> >>
    ELSE << <<key, Cardinality({values[k] : k \in 1..Len(values)})>> >>

\* collector[key] = [value]: a later value replaces the earlier ones
collect_overwriting(pairs) ==
    [keys |-> Distinct([k \in 1..Len(pairs) |-> pairs[k][1]]),
     at |-> [key \in {pairs[k][1] : k \in 1..Len(pairs)} |->
               LET last == CHOOSE k \in 1..Len(pairs) :
                              /\ pairs[k][1] = key
                              /\ \A h \in (k + 1)..Len(pairs) : pairs[h][1] # key
               IN <<pairs[last][2]>>]]

\* collector = defaultdict(list); collector[key].append(value) for each of
\* the (key, value) pairs in the order they were yielded
collect(pairs) ==
    group_by([k \in 1..Len(pairs) |-> pairs[k][2]],
             [k \in 1..Len(pairs) |-> pairs[k][1]])

\* the (key, value) pairs the mapper yields: for input in inputs, for
\* key, value in mapper(input)
emitted(items, mapper) ==
    Flatten([i \in 1..Len(items) |-> mapper_yields(mapper, items[i])])

\* the arguments of the calls reducer(key, values) of the return
\* comprehension, in call order: one call for each item of the collector
reducer_calls(items, mapper) ==
    LET collector == collect(emitted(items, mapper))
    IN [j \in 1..Len(collector.keys) |->
          <<collector.keys[j], collector.at[collector.keys[j]]>>]

\* map_reduce(inputs, mapper, reducer)
map_reduce(items, mapper, reducer) ==
    LET calls == reducer_calls(items, mapper)
    IN Flatten([j \in 1..Len(calls) |->
                  reducer_yields(reducer, calls[j][1], calls[j][2])])

\* the status updates: two users, joelgrus posting on Saturdays (weekday 5)
\* and data_gal on Mondays (0), each update about data science or not and
\* liked by nobody, by one or by two
Likers == {<<>>, <<"data_guy">>, <<"bill", "data_guy">>}

Texts == {"Is anyone interested in a data science book?", "Big Data"}

StatusUpdates ==
    {[username |-> u, text |-> t, liked_by |-> l,
      created_at |-> IF u = "joelgrus" THEN 5 ELSE 0] :
        u \in {"joelgrus", "data_gal"}, t \in Texts, l \in Likers}

\* the (mapper, reducer) pairs map_reduce is run with
MapReducePrograms ==
    {<<"data_science_day_mapper", "sum_reducer">>,
     <<"data_science_day_mapper", "count_distinct_reducer">>,
     <<"liker_mapper", "count_distinct_reducer">>}

InitMapReduce ==
    /\ inputs \in SeqsUpTo(StatusUpdates, MaxUpdates)
    /\ call = [fn |-> "none"]
    /\ result = Return(None)
    /\ tree = Unbound
    /\ trees = <<>>
    /\ users = <<>>
    /\ locals = [fn |-> "none"]

\* map_reduce(inputs, mapper, reducer); the call record keeps the reducer
\* calls that were made
MapReduce(mapper, reducer) ==
    /\ result' = Return(map_reduce(inputs, mapper, reducer))
    /\ call' = [fn |-> "map_reduce", mapper |-> mapper, reducer |-> reducer,
                reducer_calls |-> reducer_calls(inputs, mapper)]
    /\ UNCHANGED <<inputs, tree, trees, users, locals>>

NextMapReduce == \E program \in MapReducePrograms : MapReduce(program[1], program[2])

SpecMapReduce == InitMapReduce /\ [][NextMapReduce]_vars

(***************************************************************************)
(* Matrix multiplication with map_reduce.  An element is the tuple         *)
(* <<matrix_name, i, j, value>>, indices from 0.                           *)
(***************************************************************************)
\* range(m)
range(m) == [c \in 1..m |-> c - 1]

\* matrix_multiply_mapper(m, element): the pairs it yields
matrix_multiply_mapper(m, element) ==
    LET matrix == element[1]
        i == element[2]
        j == element[3]
        value == element[4]
    IN IF matrix = "A"
       THEN [c \in 1..m |-> << <<i, range(m)[c]>>, <<j, value>> >>]
       ELSE [r \in 1..m |-> << <<range(m)[r], j>>, <<i, value>> >>]

\* matrix_multiply_reducer(m, key, indexed_values): what it yields
matrix_multiply_reducer(m, key, indexed_values) ==
    LET results_by_index ==
            group_by([h \in 1..Len(indexed_values) |-> indexed_values[h][2]],
                     [h \in 1..Len(indexed_values) |-> indexed_values[h][1]])
        results == DictValues(results_by_index)
        sum_product == SumSeq([h \in 1..Len(results) |->
                                 IF Len(results[h]) = 2
                                 THEN results[h][1] * results[h][2]
                                 ELSE 0])
    IN IF sum_product # 0 THEN << <<key, sum_product>> >> ELSE <<>>

\* map_reduce(entries, partial(matrix_multiply_mapper, m),
\*            partial(matrix_multiply_reducer, m))
matrix_map_reduce(entries, m) ==
    LET pairs == Flatten([e \in 1..Len(entries) |->
                            matrix_multiply_mapper(m, entries[e])])
        collector == collect(pairs)
    IN Flatten([h \in 1..Len(collector.keys) |->
                  matrix_multiply_reducer(m, collector.keys[h],
                                          collector.at[collector.keys[h]])])

\* sparse matrices: some positions hold a nonzero integer
MatrixValues == {1, 0 - 1}

Positions == (0..(MaxDim - 1)) \X (0..(MaxDim - 1))

SparseMatrices == UNION {[P -> MatrixValues] : P \in SUBSET Positions}

\* the elements of a sparse matrix, row by row
EntriesOf(name, matrix) ==
    LET at == ListOf(DOMAIN matrix)
    IN [h \in 1..Len(at) |-> <<name, at[h][1], at[h][2], matrix[at[h]]>>]

InitMatrix ==
    /\ inputs \in {EntriesOf("A", a) \o EntriesOf("B", b) :
                      a \in SparseMatrices, b \in SparseMatrices}
    /\ call = [fn |-> "none"]
    /\ result = Return(None)
    /\ tree = Unbound
    /\ trees = <<>>
    /\ users = <<>>
    /\ locals = [fn |-> "none"]

\* the entries are those of an n x m matrix A and an m x k matrix B
Shaped(entries, n, m, k) ==
    \A e \in 1..Len(entries) :
       IF entries[e][1] = "A"
       THEN entries[e][2] < n /\ entries[e][3] < m
       ELSE entries[e][2] < m /\ entries[e][3] < k

\* map_reduce(entries, mapper, reducer) with mapper and reducer bound to m,
\* the entries being those of an n x m and an m x k matrix
MatrixMultiply(n, m, k) ==
    /\ Shaped(inputs, n, m, k)
    /\ result' = Return(matrix_map_reduce(inputs, m))
    /\ call' = [fn |-> "matrix_multiply", n |-> n, m |-> m, k |-> k]
    /\ UNCHANGED <<inputs, tree, trees, users, locals>>

NextMatrix == \E n, m, k \in 1..MaxDim : MatrixMultiply(n, m, k)

SpecMatrix == InitMatrix /\ [][NextMatrix]_vars

(***************************************************************************)
(* Properties.                                                             *)
(***************************************************************************)
\* the list build_tree_id3 was last called with as split_candidates (the keys
\* of the first example when the call gave none)
CalledCandidates ==
    IF call.given THEN call.split_candidates
    ELSE IF Len(inputs) = 0 THEN <<>> ELSE Keys(inputs[1][1])

BooleanLabels(examples) == \A i \in 1..Len(examples) : IsBool(examples[i][2])

\* every attribute value is a string of the data, not None
StringValued(examples) ==
    \A i \in 1..Len(examples) : \A a \in DOMAIN examples[i][1] :
       examples[i][1][a] # None

CarryAll(examples, candidates) ==
    \A i \in 1..Len(examples) : \A j \in 1..Len(candidates) :
       candidates[j] \in DOMAIN examples[i][1]

\* two examples that agree on every candidate have the same label
NoConflict(examples, candidates) ==
    \A i, k \in 1..Len(examples) :
       (\A j \in 1..Len(candidates) :
           examples[i][1][candidates[j]] = examples[k][1][candidates[j]])
       => examples[i][2] = examples[k][2]

RECURSIVE SubtreesOf(_)
\* a tree and every tree below it
SubtreesOf(t) ==
    IF IsLeaf(t) THEN {t}
    ELSE {t} \cup UNION {SubtreesOf(t.subtree_dict[k]) : k \in DOMAIN t.subtree_dict}

RECURSIVE Depth(_)
\* the number of decision nodes on the longest path of a tree
Depth(t) ==
    IF IsLeaf(t) THEN 0
    ELSE LET below == {Depth(t.subtree_dict[k]) : k \in DOMAIN t.subtree_dict}
         IN 1 + (CHOOSE m \in below : \A n \in below : n <= m)

FitPrecondition ==
    /\ call.fn = "build_tree_id3"
    /\ Len(inputs) > 0
    /\ BooleanLabels(inputs)
    /\ StringValued(inputs)
    /\ CarryAll(inputs, CalledCandidates)
    /\ NoConflict(inputs, CalledCandidates)

\* C1: when the training list is not empty, its labels are booleans, every
\* example carries every split candidate and no two examples agree on all
\* candidates but differ in label, build_tree_id3 returns a tree that
\* classifies every training example as its own label.
C1_TrainingSetFit ==
    FitPrecondition =>
       /\ Returned(result)
       /\ \A i \in 1..Len(inputs) :
             classify(result.value, inputs[i][1]) = Return(inputs[i][2])

\* a fit tree of two levels built from examples of both labels
C1_Witness ==
    /\ FitPrecondition
    /\ Returned(result)
    /\ Depth(result.value) = 2
    /\ \A i \in 1..Len(inputs) :
          classify(result.value, inputs[i][1]) = Return(inputs[i][2])

\* C2: classifying any attribute dict (any subset of the attributes, seen or
\* unseen values, the empty dict) with a tree built from well-formed training
\* data raises nothing and returns a boolean.
C2_ClassifyNeverRaises ==
    call.fn = "classify" => Returned(result) /\ IsBool(result.value)

\* the empty dict classified by a decision node
C2_Witness ==
    /\ call.fn = "classify"
    /\ ~IsLeaf(tree)
    /\ DOMAIN call.input = {}
    /\ Returned(result)
    /\ IsBool(result.value)

\* the child the claim says classify follows at a decision node
FollowedChild(t, input) ==
    IF /\ t.attribute \in DOMAIN input
       /\ input[t.attribute] \in DOMAIN t.subtree_dict
    THEN t.subtree_dict[input[t.attribute]]
    ELSE t.subtree_dict[None]

RECURSIVE Walk(_, _)
\* the leaf value reached by following FollowedChild from t
Walk(t, input) ==
    IF IsLeaf(t) THEN t.value ELSE Walk(FollowedChild(t, input), input)

\* C3: at a decision node classify follows the child keyed by the input's
\* value for the node's attribute when there is one, and the None child when
\* the input lacks the attribute or its value has no child; the call returns
\* what classifying the input with that child returns, at every level.
C3_ClassifyFollowsChild ==
    call.fn = "classify" =>
       /\ result = Return(Walk(tree, call.input))
       /\ ~IsLeaf(tree) => result = classify(FollowedChild(tree, call.input), call.input)

\* an input routed by its value at the root and by the None child below it,
\* where the None child and the value children disagree
C3_Witness ==
    /\ call.fn = "classify"
    /\ ~IsLeaf(tree)
    /\ tree.attribute \in DOMAIN call.input
    /\ call.input[tree.attribute] \in DOMAIN tree.subtree_dict
    /\ LET child == tree.subtree_dict[call.input[tree.attribute]]
       IN /\ ~IsLeaf(child)
          /\ \/ child.attribute \notin DOMAIN call.input
             \/ call.input[child.attribute] \notin DOMAIN child.subtree_dict
          /\ result = Return(child.subtree_dict[None].value)
          /\ \E k \in DOMAIN child.subtree_dict :
                child.subtree_dict[k] # child.subtree_dict[None]

\* C4: every decision node, at any depth, of a tree that build_tree_id3
\* returned has the key None in its subtree dict.
C4_EveryNodeHasNoneChild ==
    tree # Unbound =>
       \A t \in SubtreesOf(tree) : ~IsLeaf(t) => None \in DOMAIN t.subtree_dict

\* a tree of two levels, each node with its None child
C4_Witness ==
    /\ tree # Unbound
    /\ Depth(tree) = 2
    /\ \A t \in SubtreesOf(tree) : ~IsLeaf(t) => None \in DOMAIN t.subtree_dict

\* the tree of the notebook: build_tree_id3(inputs) on the hiring data, whose
\* split candidates are level, lang, tweets, phd
NotebookTree == build_tree_id3_first_pass(HiringInputs)

JuniorJavaTweets(phd) == Candidate("Junior", "Java", "yes", phd)

\* C5: the tree built from the 14-row hiring data with candidates level, lang,
\* tweets, phd classifies Junior / Java / tweets / no phd as True and
\* Junior / Java / tweets / phd as False.
C5_HiringWorkedExample ==
    (/\ call.fn = "classify"
     /\ Returned(NotebookTree)
     /\ tree = NotebookTree.value) =>
       /\ call.input = JuniorJavaTweets("no") => result = Return(True)
       /\ call.input = JuniorJavaTweets("yes") => result = Return(False)

\* the notebook's second query answered on the notebook's tree
C5_Witness ==
    /\ call.fn = "classify"
    /\ Returned(NotebookTree)
    /\ tree = NotebookTree.value
    /\ call.input = JuniorJavaTweets("yes")
    /\ result = Return(False)

InternOnly == [a \in {"level"} |-> "Intern"]

\* C6: on the tree built from the hiring data, the input {level: Intern} has
\* no child at the root (no training example is an Intern), is routed to the
\* root's None child, and is classified True, the majority label of the 14
\* examples.
C6_InternFallsThrough ==
    (/\ call.fn = "classify"
     /\ Returned(NotebookTree)
     /\ tree = NotebookTree.value
     /\ call.input = InternOnly) =>
       /\ ~IsLeaf(tree)
       /\ tree.attribute = "level"
       /\ "Intern" \notin DOMAIN tree.subtree_dict
       /\ tree.subtree_dict[None] = Leaf(True)
       /\ Count([i \in 1..Len(inputs) |-> inputs[i][2]], True)
             > Count([i \in 1..Len(inputs) |-> inputs[i][2]], False)
       /\ result = Return(True)

\* {level: Intern} classified on the notebook's tree
C6_Witness ==
    /\ call.fn = "classify"
    /\ Returned(NotebookTree)
    /\ tree = NotebookTree.value
    /\ call.input = InternOnly
    /\ result = Return(True)

\* the examples of the list, as a set
ElementsOf(examples) == {examples[i] : i \in 1..Len(examples)}

\* keys[i] being the key of examples[i]: every example is in the group of its
\* key as often as the list has it with that key, the groups have no other
\* key, and their sizes sum to the size of the list
GroupedBy(groups, examples, keys) ==
    /\ DOMAIN groups.at = {keys[i] : i \in 1..Len(examples)}
    /\ {groups.keys[j] : j \in 1..Len(groups.keys)} = DOMAIN groups.at
    /\ \A e \in ElementsOf(examples) : \A k \in DOMAIN groups.at :
          Count(groups.at[k], e)
             = Cardinality({i \in 1..Len(examples) : examples[i] = e /\ keys[i] = k})
    /\ SumSeq([j \in 1..Len(groups.keys) |-> Len(groups.at[groups.keys[j]])])
          = Len(examples)

\* the value of every example for the attribute
ValuesFor(examples, attribute) ==
    [i \in 1..Len(examples) |-> examples[i][1][attribute]]

\* the value of every example for the attribute, None where it has none
ValuesOrNoneFor(examples, attribute) ==
    [i \in 1..Len(examples) |->
       IF attribute \in DOMAIN examples[i][1]
       THEN examples[i][1][attribute] ELSE None]

\* C7: partition_by on an attribute that every example carries returns
\* groups in which every example is exactly once, in the group keyed by its
\* value for the attribute; the group sizes sum to the size of the list.
C7_PartitionExactlyOnce ==
    (/\ call.fn = "partition_by"
     /\ CarryAll(inputs, <<call.attribute>>)) =>
       /\ Returned(result)
       /\ GroupedBy(result.value, inputs, ValuesFor(inputs, call.attribute))

\* three examples in two groups, one of them of two examples
C7_Witness ==
    /\ call.fn = "partition_by"
    /\ Len(inputs) = 3
    /\ Returned(result)
    /\ Cardinality(DOMAIN result.value.at) = 2
    /\ \E k \in DOMAIN result.value.at : Len(result.value.at[k]) = 2
    /\ GroupedBy(result.value, inputs, ValuesFor(inputs, call.attribute))

C9_EmptyTrainingRejected ==
    (/\ call.fn = "build_tree_id3"
     /\ Len(inputs) = 0) => ~Returned(result)

\* C10 as claimed: build_tree_id3 on a training list with a label that is no
\* boolean is rejected with an error and returns no tree.  (The error's type
\* is left open here: the code defines no InvalidInput.)
C10_NonBooleanLabelRejected ==
    (/\ call.fn = "build_tree_id3"
     /\ ~BooleanLabels(inputs)) => ~Returned(result)

\* the number of trees of the forest that classify the called input as b
VotesFor(b) ==
    Cardinality({i \in 1..Len(trees) : classify(trees[i], call.input) = Return(b)})

\* C11: when the forest is not empty and strictly more of its trees classify
\* the input as one boolean than as the other, forest_classify returns that
\* boolean.
C11_MajorityWins ==
    (call.fn = "forest_classify" /\ Len(trees) > 0) =>
       /\ VotesFor(True) > VotesFor(False) => result = Return(True)
       /\ VotesFor(False) > VotesFor(True) => result = Return(False)

\* a vote of two against one in which the first tree is the one outvoted
C11_Witness ==
    /\ call.fn = "forest_classify"
    /\ Len(trees) = 3
    /\ classify(trees[1], call.input) = Return(False)
    /\ VotesFor(True) = 2
    /\ VotesFor(False) = 1
    /\ result = Return(True)

\* the orders in which the trees of a forest can appear
Reorderings(forest) ==
    {[i \in 1..Len(forest) |-> forest[p[i]]] :
        p \in {q \in [1..Len(forest) -> 1..Len(forest)] :
                  \A i, j \in 1..Len(forest) : q[i] = q[j] => i = j}}

Tied(forest, input) ==
    LET for(b) == Cardinality({i \in 1..Len(forest) :
                                 classify(forest[i], input) = Return(b)})
    IN Len(forest) > 0 /\ for(True) = for(False)

\* C12: when as many trees vote True as vote False, forest_classify returns
\* one fixed value: the value it returns for every other tied vote, of the
\* same trees in any order on any input.
C12_TieBrokenByFixedRule ==
    (call.fn = "forest_classify" /\ Tied(trees, call.input)) =>
       \A forest \in Reorderings(trees) : \A x \in ForestQueries :
          Tied(forest, x) => forest_classify(forest, x) = result

\* C13: forest_classify of a forest of one tree returns what classify
\* returns for that tree and the same input.
C13_SingleTreeForest ==
    (call.fn = "forest_classify" /\ Len(trees) = 1) =>
       result = classify(trees[1], call.input)

\* a forest of one decision node that classifies the input as False
C13_Witness ==
    /\ call.fn = "forest_classify"
    /\ Len(trees) = 1
    /\ ~IsLeaf(trees[1])
    /\ result = Return(False)
    /\ result = classify(trees[1], call.input)

\* every tree of the forest is what one same build returns: a build from
\* the training list with the ordered candidates c
BuiltAlike(c) ==
    LET built == build_tree_id3(inputs, c)
    IN \A i \in 1..Len(trees) : Return(trees[i]) = built

ChildrenOf(t) == {t.subtree_dict[k] : k \in DOMAIN t.subtree_dict}

\* C16: classify of a tree that build_tree_id3 returned ends: every call of
\* the recursion but the last is on a decision node and the next call is on
\* one of that node's children, the last call is on a leaf whose value is
\* returned, and the recursive calls are at most as many as the tree's depth.
C16_ClassifyDescendsToLeaf ==
    call.fn = "classify" =>
       LET calls == classify_calls(tree, call.input)
       IN /\ calls[1] = tree
          /\ \A k \in 1..(Len(calls) - 1) :
                /\ ~IsLeaf(calls[k])
                /\ calls[k + 1] \in ChildrenOf(calls[k])
          /\ IsLeaf(calls[Len(calls)])
          /\ result = Return(calls[Len(calls)].value)
          /\ Len(calls) - 1 <= Depth(tree)

\* a walk of as many steps as the hiring tree is deep
C16_Witness ==
    /\ call.fn = "classify"
    /\ Depth(tree) = 3
    /\ Len(classify_calls(tree, call.input)) - 1 = Depth(tree)
    /\ Returned(result)

\* the labels of the training list, and the distinct values among them
LabelsOf(examples) == [i \in 1..Len(examples) |-> examples[i][2]]

LabelValues(examples) == {examples[i][2] : i \in 1..Len(examples)}

\* C17: data_entropy of a non-empty labeled list whose labels are all the
\* same value is 0.
C17_PureSetHasNoEntropy ==
    (/\ call.fn = "data_entropy"
     /\ Len(inputs) > 0
     /\ Cardinality(LabelValues(inputs)) = 1) => result = Return(0)

\* four examples of one label that are not all the same applicant
C17_Witness ==
    /\ call.fn = "data_entropy"
    /\ Len(inputs) = 4
    /\ Cardinality(LabelValues(inputs)) = 1
    /\ Cardinality(ElementsOf(inputs)) = 2
    /\ result = Return(0)

\* the labels take two values, each as often as the other
EvenSplit(examples) ==
    /\ Cardinality(LabelValues(examples)) = 2
    /\ \A v, w \in LabelValues(examples) :
          Count(LabelsOf(examples), v) = Count(LabelsOf(examples), w)

\* C18: data_entropy of a labeled list split evenly between two label
\* values is 1.0.
C18_EvenSplitHasEntropyOne ==
    (call.fn = "data_entropy" /\ EvenSplit(inputs)) => result = Return(One)

\* two examples of each of two labels, the labels interleaved
C18_Witness ==
    /\ call.fn = "data_entropy"
    /\ Len(inputs) = 4
    /\ EvenSplit(inputs)
    /\ inputs[1][2] # inputs[2][2]
    /\ inputs[1][2] = inputs[3][2]
    /\ result = Return(One)

\* i and j are friends
Friends(i, j) == \E k \in 1..Len(User(users, i).friends) : User(users, i).friends[k] = j

\* the paths of the network from one user to another, as lists of the ids
\* after the first user: each step goes from a user to a friend
PathsBetween(from, to, length) ==
    IF length = 0 THEN IF from = to THEN {<<>>} ELSE {}
    ELSE {path \in [1..length -> UserIds] :
            /\ Friends(from, path[1])
            /\ \A k \in 1..(length - 1) : Friends(path[k], path[k + 1])
            /\ path[length] = to}

Reachable(from) ==
    {to \in UserIds : \E length \in 0..(MaxUsers - 1) : PathsBetween(from, to, length) # {}}

\* the length of the shortest path to a reachable user
Distance(from, to) ==
    CHOOSE length \in 0..(MaxUsers - 1) :
       /\ PathsBetween(from, to, length) # {}
       /\ \A shorter \in 0..(length - 1) : PathsBetween(from, to, shorter) = {}

AllShortestPaths(from, to) == PathsBetween(from, to, Distance(from, to))

ReturnedShortestPaths ==
    /\ call.fn = "shortest_paths_from"
    /\ locals.fn = "none"

ShortestPathsCorrect ==
    LET from == call.from_user
        paths == result.value
    IN /\ Returned(result)
       /\ DOMAIN paths = Reachable(from)
       /\ paths[from] = << <<>> >>
       /\ \A to \in Reachable(from) :
             /\ {paths[to][k] : k \in 1..Len(paths[to])} = AllShortestPaths(from, to)
             /\ Len(paths[to]) = Cardinality(AllShortestPaths(from, to))
             /\ \A k \in 1..Len(paths[to]) : Len(paths[to][k]) = Len(paths[to][1])

\* C19: on every undirected friendship network and for every from_user, a
\* call of shortest_paths_from returns, and what it returns is a dict whose
\* keys are the users reachable from from_user, from_user itself with the
\* one empty path, and whose value for a user lists each shortest path to
\* that user once and no other path.
C19_AllShortestPaths ==
    /\ [](ReturnedShortestPaths => ShortestPathsCorrect)
    /\ (locals.fn = "shortest_paths_from") ~> ReturnedShortestPaths

\* a user reached by two shortest paths of two steps, in a network where a
\* longer way round to a friend of from_user was met and left out
C19_Witness ==
    /\ ReturnedShortestPaths
    /\ ShortestPathsCorrect
    /\ \E to \in Reachable(call.from_user) :
          /\ Distance(call.from_user, to) = 1
          /\ PathsBetween(call.from_user, to, 2) # {}
    /\ \E to \in Reachable(call.from_user) :
          /\ Len(result.value[to]) = 2
          /\ Len(result.value[to][1]) = 2

\* the pairs the called mapper yields for the inputs, in emission order:
\* inputs in order, the pairs of one input in the mapper's order
EmittedPairs == Flatten([i \in 1..Len(inputs) |-> mapper_yields(call.mapper, inputs[i])])

\* the positions of EmittedPairs at which a key is emitted for the first time
FirstEmissions ==
    LET first(k) == \A h \in 1..(k - 1) : EmittedPairs[h][1] # EmittedPairs[k][1]
    IN SelectSeq([k \in 1..Len(EmittedPairs) |-> k], first)

\* the values emitted for a key, in emission order
EmittedFor(key) ==
    LET of_key(pair) == pair[1] = key
        pairs == SelectSeq(EmittedPairs, of_key)
    IN [k \in 1..Len(pairs) |-> pairs[k][2]]

\* C20: map_reduce calls the reducer once for each distinct key the mapper
\* emitted, in the order in which the keys were first emitted, each call
\* with all the values emitted for its key in emission order, and returns
\* the reducer's outputs of these calls, concatenated in call order.
C20_MapReduceGroupsByKey ==
    call.fn = "map_reduce" =>
       LET calls == call.reducer_calls
       IN /\ Len(calls) = Len(FirstEmissions)
          /\ \A j \in 1..Len(calls) :
                /\ calls[j][1] = EmittedPairs[FirstEmissions[j]][1]
                /\ calls[j][2] = EmittedFor(calls[j][1])
          /\ result = Return(Flatten([j \in 1..Len(calls) |->
                 reducer_yields(call.reducer, calls[j][1], calls[j][2])]))

\* the values of one key come from two inputs with another key's input in
\* between, and one value is emitted twice for that key
C20_Witness ==
    /\ call.fn = "map_reduce"
    /\ call.mapper = "liker_mapper"
    /\ Len(inputs) = 3
    /\ inputs[1].username = inputs[3].username
    /\ inputs[1].username # inputs[2].username
    /\ Len(call.reducer_calls) = 2
    /\ call.reducer_calls[1][2] = <<"bill", "data_guy", "data_guy">>
    /\ call.reducer_calls[2][2] = <<"data_guy">>
    /\ result = Return(<< <<inputs[1].username, 2>>, <<inputs[2].username, 1>> >>)

\* the entry of a matrix of the inputs at row i, column j: 0 where the
\* sparse list holds no element
EntryAt(name, i, j) ==
    IF \E e \in 1..Len(inputs) : inputs[e][1] = name /\ inputs[e][2] = i /\ inputs[e][3] = j
    THEN inputs[CHOOSE e \in 1..Len(inputs) :
                   inputs[e][1] = name /\ inputs[e][2] = i /\ inputs[e][3] = j][4]
    ELSE 0

\* C_ij of the product C = AB, m being the common dimension
ProductAt(i, j, m) == SumSeq([h \in 1..m |-> EntryAt("A", i, h - 1) * EntryAt("B", h - 1, j)])

\* C21: for an n x m matrix A and an m x k matrix B given as sparse
\* elements, the map_reduce run with mapper and reducer bound to m outputs
\* one pair ((i, j), C_ij) for each nonzero entry of C = AB, and no other.
C21_MatrixProduct ==
    call.fn = "matrix_multiply" =>
       LET output == result.value
           nonzero == {<<i, j>> \in (0..(call.n - 1)) \X (0..(call.k - 1)) :
                          ProductAt(i, j, call.m) # 0}
       IN /\ {output[h] : h \in 1..Len(output)} =
                {<<ij, ProductAt(ij[1], ij[2], call.m)>> : ij \in nonzero}
          /\ Len(output) = Cardinality(nonzero)

(***************************************************************************)
(* The tree that build_tree_id3 returns, node by node.                     *)
(***************************************************************************)
Built == call.fn = "build_tree_id3" /\ Returned(result)

NumTrues(examples) == Cardinality({i \in 1..Len(examples) : examples[i][2] = True})

NumFalses(examples) == Cardinality({i \in 1..Len(examples) : examples[i][2] = False})

BothLabels(examples) == NumTrues(examples) > 0 /\ NumFalses(examples) > 0

\* the examples whose value of the attribute is v
ExamplesWith(examples, attribute, v) ==
    SelectSeq(examples, LAMBDA x : x[1][attribute] = v)

RECURSIVE BuiltAt(_, _, _)
\* the subtrees of a tree built from examples and candidates, each with the
\* examples that reach it and the candidates not yet used above it; the
\* missing-value children are not among them
BuiltAt(t, examples, candidates) ==
    {[tree |-> t, examples |-> examples, candidates |-> candidates]} \cup
    (IF IsLeaf(t) THEN {}
     ELSE UNION {BuiltAt(t.subtree_dict[v],
                         ExamplesWith(examples, t.attribute, v),
                         SelectSeq(candidates, LAMBDA a : a # t.attribute)) :
                 v \in DOMAIN t.subtree_dict \ {None}})

BuiltNodes == BuiltAt(result.value, inputs, CalledCandidates)

\* C22: where the examples carry both labels and no candidate is left, the
\* tree is the leaf of the majority label, the True leaf on a tie
C22_MajorityLeafWithoutCandidates ==
    Built =>
        \A b \in BuiltNodes :
            (BothLabels(b.examples) /\ Len(b.candidates) = 0) =>
                b.tree = Leaf(Bool(NumTrues(b.examples) >= NumFalses(b.examples)))

\* a tie without candidates below a decision node, and the True leaf for it
C22_Witness ==
    /\ Built
    /\ ~IsLeaf(result.value)
    /\ \E b \in BuiltNodes :
          /\ Len(b.candidates) = 0
          /\ NumTrues(b.examples) = 1
          /\ NumFalses(b.examples) = 1
          /\ b.tree = Leaf(True)

\* C23: the missing-value child of every decision node is the leaf of the
\* majority label of the examples at that node, the True leaf on a tie
C23_DefaultChildIsMajorityLeaf ==
    Built =>
        \A b \in BuiltNodes :
            ~IsLeaf(b.tree) =>
                /\ None \in DOMAIN b.tree.subtree_dict
                /\ b.tree.subtree_dict[None] =
                      Leaf(Bool(NumTrues(b.examples) >= NumFalses(b.examples)))

\* the partition entropy of the examples at a node by one attribute
EntropyBy(examples, attribute) == partition_entropy_by(examples, attribute).value

\* C24: where the examples carry both labels and candidates are left, the
\* node splits on a candidate of minimal partition entropy, and every
\* candidate before it in the list has a strictly higher entropy
C24_SplitsOnFirstMinimalEntropy ==
    Built =>
        \A b \in BuiltNodes :
            (BothLabels(b.examples) /\ Len(b.candidates) > 0) =>
                /\ ~IsLeaf(b.tree)
                /\ \E j \in 1..Len(b.candidates) :
                      /\ b.tree.attribute = b.candidates[j]
                      /\ \A i \in 1..Len(b.candidates) :
                            EntropyBy(b.examples, b.candidates[j])
                               <= EntropyBy(b.examples, b.candidates[i])
                      /\ \A i \in 1..(j - 1) :
                            EntropyBy(b.examples, b.candidates[j])
                               < EntropyBy(b.examples, b.candidates[i])

\* phd and level split the examples equally well, phd is listed first and
\* is the root
C24_Witness ==
    /\ Built
    /\ call.given
    /\ call.split_candidates = <<"phd", "level">>
    /\ BothLabels(inputs)
    /\ EntropyBy(inputs, "phd") = EntropyBy(inputs, "level")
    /\ ~IsLeaf(result.value)
    /\ result.value.attribute = "phd"

RECURSIVE PathsOf(_)
\* the attributes of the decision nodes along each root-to-leaf path
PathsOf(t) ==
    IF IsLeaf(t) THEN {<<>>}
    ELSE UNION {{<<t.attribute>> \o p : p \in PathsOf(t.subtree_dict[v])} :
                v \in DOMAIN t.subtree_dict}

InitialCandidates == {CalledCandidates[j] : j \in 1..Len(CalledCandidates)}

\* C25: on every root-to-leaf path of a returned tree no attribute labels
\* two decision nodes, every attribute is one of the initial candidates, and
\* there are at most as many decision nodes as initial candidates
C25_AttributesUsedOncePerPath ==
    Built =>
        \A p \in PathsOf(result.value) :
            /\ \A i, j \in 1..Len(p) : p[i] = p[j] => i = j
            /\ \A i \in 1..Len(p) : p[i] \in InitialCandidates
            /\ Len(p) <= Cardinality(InitialCandidates)

\* a path that uses both candidates, the second listed first
C25_Witness ==
    /\ Built
    /\ CalledCandidates = <<"level", "phd">>
    /\ <<"phd", "level">> \in PathsOf(result.value)

\* a decision node on a yes/no attribute
YesNoNode(attribute, no, yes, missing) ==
    Node(attribute,
         [v \in {"no", "yes", None} |->
             IF v = "no" THEN Leaf(no)
             ELSE IF v = "yes" THEN Leaf(yes) ELSE Leaf(missing)])

\* the tree of the claim: level at the root, tweets below Senior, phd below
\* Junior
PrintedTree ==
    Node("level",
         [v \in {"Senior", "Mid", "Junior", None} |->
             IF v = "Senior" THEN YesNoNode("tweets", False, True, False)
             ELSE IF v = "Junior" THEN YesNoNode("phd", True, False, True)
             ELSE Leaf(True)])

\* C26: build_tree_id3 on the 14-row hiring data with the candidates level,
\* lang, tweets, phd returns exactly the tree with level at the root (missing
\* child True), the True leaf for Mid, tweets below Senior (no False, yes
\* True, missing False) and phd below Junior (no True, yes False, missing
\* True)
C26_HiringTree ==
    (/\ call.fn = "build_tree_id3"
     /\ inputs = HiringInputs
     /\ CalledCandidates = <<"level", "lang", "tweets", "phd">>) =>
        result = Return(PrintedTree)

\* tree = build_tree_id3(inputs) has run, the candidates taken from the
\* first example's keys, and tree is bound to the tree of the claim
C26_Witness ==
    /\ call.fn = "build_tree_id3"
    /\ ~call.given
    /\ inputs = HiringInputs
    /\ Keys(inputs[1][1]) = <<"level", "lang", "tweets", "phd">>
    /\ tree = PrintedTree

\* the recursive calls of the build_tree_id3 call made
RecursiveCalls == build_tree_id3_calls(inputs, CalledCandidates)

\* C27: when the training list is not empty, every recursive call of
\* build_tree_id3 receives a non-empty list of examples
C27_NoCallOnEmptyExamples ==
    (call.fn = "build_tree_id3" /\ Len(inputs) > 0) =>
        \A c \in RecursiveCalls : Len(c.examples) > 0

\* a recursive call that itself made a recursive call, on one example
C27_Witness ==
    /\ Built
    /\ Len(inputs) > 0
    /\ \E c, d \in RecursiveCalls :
          /\ d.caller = [examples |-> c.examples,
                         split_candidates |-> c.split_candidates]
          /\ Len(d.examples) = 1

BuildRunning == locals.fn = "build_tree_id3"

BuildReturned ==
    /\ call.fn = "build_tree_id3"
    /\ locals.fn = "none"

RECURSIVE IsTree(_)
\* a leaf of a boolean, or an attribute with a tree per key
IsTree(t) ==
    IF IsLeaf(t) THEN IsBool(t.value)
    ELSE \A v \in DOMAIN t.subtree_dict : IsTree(t.subtree_dict[v])

\* the training list of the claim: not empty, every candidate in every
\* example
BuildPrecondition ==
    /\ Len(inputs) > 0
    /\ CarryAll(inputs, call.split_candidates)

\* every call that has not returned has fewer candidates than its caller,
\* the call below it on the stack
FewerCandidatesBelow ==
    \A j \in 1..(Len(locals.stack) - 1) :
        Len(locals.stack[j].split_candidates)
           < Len(locals.stack[j + 1].split_candidates)

\* C28: on a non-empty training list whose examples carry every candidate,
\* every recursive call of build_tree_id3 has strictly fewer candidates than
\* its caller, and the call started comes to its end and returns a tree
C28_BuildTerminates ==
    /\ []((BuildRunning /\ BuildPrecondition) => FewerCandidatesBelow)
    /\ []((BuildReturned /\ BuildPrecondition) =>
             (Returned(result) /\ IsTree(result.value)))
    /\ (BuildRunning /\ BuildPrecondition) ~> BuildReturned

\* a recursive call made by a recursive call has just been entered, the
\* candidates going from two to one to none
C28_Witness ==
    /\ BuildRunning
    /\ BuildPrecondition
    /\ Len(locals.stack) = 3
    /\ locals.stack[1].at = "called"
    /\ Len(locals.stack[1].split_candidates) = 0
    /\ Len(locals.stack[2].split_candidates) = 1
    /\ Len(locals.stack[3].split_candidates) = 2

\* C29: in every tree that build_tree_id3 returns, the None child of every
\* decision node is a leaf, True or False, also where an example at the node
\* has None as the value of the chosen attribute
C29_DefaultChildIsLeaf ==
    Built =>
        \A t \in SubtreesOf(result.value) :
            ~IsLeaf(t) =>
                /\ None \in DOMAIN t.subtree_dict
                /\ IsLeaf(t.subtree_dict[None])
                /\ IsBool(t.subtree_dict[None].value)

\* the root splits on level, examples have None as their level, the tree
\* built from those examples is a decision node, and the root's None child
\* is a leaf
C29_Witness ==
    /\ Built
    /\ ~IsLeaf(result.value)
    /\ result.value.attribute = "level"
    /\ CalledCandidates = <<"level", "phd">>
    /\ \A i \in 1..Len(inputs) :
          /\ DOMAIN inputs[i][1] = Attributes
          /\ inputs[i][1]["level"] = None
    /\ ~IsLeaf(build_tree_id3(inputs, <<"phd">>).value)
    /\ IsLeaf(result.value.subtree_dict[None])

\* the values that the attribute takes among the examples
ObservedValues(examples, attribute) ==
    {examples[i][1][attribute] : i \in 1..Len(examples)}

\* C30: the keys of a decision node's children are exactly the values that
\* the node's attribute takes among the examples at the node, and the
\* missing-value key None
C30_ChildrenAreObservedValues ==
    Built =>
        \A b \in BuiltNodes :
            ~IsLeaf(b.tree) =>
                DOMAIN b.tree.subtree_dict
                   = ObservedValues(b.examples, b.tree.attribute) \cup {None}

\* a decision node below the root without a child for a value that the
\* training list has but no example at the node
C30_Witness ==
    /\ Built
    /\ \E b \in BuiltNodes :
          /\ ~IsLeaf(b.tree)
          /\ b.tree # result.value
          /\ \E v \in ObservedValues(inputs, b.tree.attribute) :
                /\ v \notin DOMAIN b.tree.subtree_dict
                /\ v \notin ObservedValues(b.examples, b.tree.attribute)

====
